---------------------------- MODULE Spec2Model ----------------------------
(***************************************************************************)
(* The tutorial notebooks 6_autograd.ipynb, 5_model.ipynb and those of     *)
(* 4_dataset.ipynb as a state machine: one Jupyter kernel per notebook,    *)
(* its code cells run in the order of their execution counts, and the      *)
(* names the cells bind are the state.  Tensors hold fixed-point integers: the notebook's x is scaled   *)
(* by 10, y by 100 and grad_wrt_output by 10, so a product of x and y, or  *)
(* of grad_wrt_output and y, is in thousandths.                            *)
(***************************************************************************)
EXTENDS Integers, Sequences, FiniteSets, TLC

VARIABLES
    nb,              \* the notebook this kernel runs
    pc,              \* the next code cell to run, counting the cells that hold code
    kernel,          \* "alive", or "killed" by the notebook's last cell
    raised,          \* the exception that stopped the run, or "none"
    zRequiresGrad,   \* 6_autograd: whether Net declares z with requires_grad=True
    firstGetAll,     \* 6_autograd: get_all of the first GradNetWrtX's GradOperation
    classes,         \* the classes the cells have defined
    GradNetWrtXDef,  \* 6_autograd: which definition the name GradNetWrtX is bound to
    x, y,            \* 6_autograd: the input tensors
    gradnet,         \* 6_autograd: the GradNetWrtX instance last called
    layers,          \* 5_model: the layers bound to conv2d, relu, max_pool2d, flatten, dense
    input_x,         \* 5_model: the tensor bound to input_x
    model,           \* 5_model: the child cells of the LeNet5 bound to model
    disk,            \* 4_dataset: the dataset directories the kernel has looked at
    ns,              \* 4_dataset: the names the cells have bound, with their values
    stage,           \* 4_dataset: "start", or "loop" inside a cell's for loop
    it,              \* 4_dataset: the rows the running iterator has yielded
    output,          \* the value bound to output
    printed          \* what the last cell that printed wrote

vars == <<nb, pc, kernel, raised, zRequiresGrad, firstGetAll, classes,
          GradNetWrtXDef, x, y, gradnet, layers, input_x, model,
          disk, ns, stage, it, output, printed>>

autogradVars == <<zRequiresGrad, firstGetAll, GradNetWrtXDef, x, y, gradnet>>
modelVars == <<layers, input_x, model>>
datasetVars == <<disk, ns, stage, it>>

\* Largest dimension of a generated input tensor.
MaxDim == 2
\* Largest offset of a generated ramp tensor.
MaxSeed == 1

(***************************************************************************)
(* Tensors: a shape and the entries in row-major order.                    *)
(***************************************************************************)
RECURSIVE SumSeq(_)
SumSeq(s) == IF s = <<>> THEN 0 ELSE Head(s) + SumSeq(Tail(s))

RECURSIVE Numel(_)
Numel(shape) == IF shape = <<>> THEN 1 ELSE Head(shape) * Numel(Tail(shape))

Tensor(shape, data) == [shape |-> shape, data |-> data]

NoTensor == Tensor(<<>>, <<>>)

Rows(t) == t.shape[1]
Cols(t) == t.shape[2]
At(t, i, j) == t.data[(i - 1) * Cols(t) + j]

\* The row and the column of entry q of a matrix of n columns.
RowOf(q, n) == ((q - 1) \div n) + 1
ColOf(q, n) == ((q - 1) % n) + 1

\* Mutant: the shape is swapped and the entries stay where they were.
Transpose_Reshape(a) == Tensor(<<Cols(a), Rows(a)>>, a.data)

Transpose(a) ==
    Tensor(<<Cols(a), Rows(a)>>,
           [q \in 1..(Cols(a) * Rows(a)) |-> At(a, ColOf(q, Rows(a)), RowOf(q, Rows(a)))])

OnesLike(a) == Tensor(a.shape, [q \in 1..Numel(a.shape) |-> 1])

\* ops.MatMul(): (m,n) x (n,p) -> (m,p)
MatMul(a, b) ==
    Tensor(<<Rows(a), Cols(b)>>,
           [q \in 1..(Rows(a) * Cols(b)) |->
               SumSeq([k \in 1..Cols(a) |->
                   At(a, RowOf(q, Cols(b)), k) * At(b, k, ColOf(q, Cols(b)))])])

\* x * self.z, the one-element z broadcast over x
Mul(a, z) == Tensor(a.shape, [q \in 1..Len(a.data) |-> a.data[q] * z.data[1]])

(***************************************************************************)
(* class Net and its reverse-mode derivative.                              *)
(***************************************************************************)
ZInit == 1

\* Parameter(Tensor(np.array([1.0], np.float32)), name='z'[, requires_grad=False])
NetInit(requires_grad) ==
    [parameters |-> << [name |-> "z", data |-> Tensor(<<1>>, <<ZInit>>),
                        requires_grad |-> requires_grad] >>]

NoNet == [parameters |-> <<>>]

NetZ(net) == net.parameters[1].data

\* Mutant: requires_grad is not looked at.
trainable_params_All(net) == net.parameters

trainable_params(net) == SelectSeq(net.parameters, LAMBDA p : p.requires_grad)

\* Net.construct: x = x * self.z; out = self.matmul(x, y)
NetConstruct(net, a, b) == MatMul(Mul(a, NetZ(net)), b)

\* Mutant: the z derivative is not summed over the broadcast.
NetBprop_NoReduce(net, a, b, sens) ==
    LET xz  == Mul(a, NetZ(net))
        dxz == MatMul(sens, Transpose(b))
        dy  == MatMul(Transpose(xz), sens)
        dx  == Mul(dxz, NetZ(net))
        dz  == Tensor(a.shape, [q \in 1..Len(a.data) |-> dxz.data[q] * a.data[q]])
    IN  [inputs |-> <<dx, dy>>, z |-> dz]

\* The chain rule through construct, last operation first: MatMul, then the
\* broadcast multiplication (whose z derivative is summed over the broadcast).
NetBprop(net, a, b, sens) ==
    LET xz  == Mul(a, NetZ(net))
        dxz == MatMul(sens, Transpose(b))
        dy  == MatMul(Transpose(xz), sens)
        dx  == Mul(dxz, NetZ(net))
        dz  == Tensor(<<1>>, << SumSeq([q \in 1..Len(a.data) |-> dxz.data[q] * a.data[q]]) >>)
    IN  [inputs |-> <<dx, dy>>, z |-> dz]

(***************************************************************************)
(* ops.GradOperation(get_all, get_by_list, sens_param)                     *)
(***************************************************************************)
GradOperation(get_all, get_by_list, sens_param) ==
    [get_all |-> get_all, get_by_list |-> get_by_list, sens_param |-> sens_param]

NoResult == [kind |-> "none", inputs |-> <<>>, weights |-> <<>>]

\* Mutant: the scaling tensor is not used.
Sensitivity_Ones(grad_op, args, fwd) == OnesLike(fwd)

\* sens_param: the last argument scales the output; without it the output is
\* weighted by ones.
Sensitivity(grad_op, args, fwd) ==
    IF grad_op.sens_param THEN args[Len(args)] ELSE OnesLike(fwd)

\* Mutant: get_all is not looked at.
InputGradients_FirstOnly(grad_op, dinputs, nin) == <<dinputs[1]>>

\* get_all: the derivatives of all inputs, or of the first input.
InputGradients(grad_op, dinputs, nin) ==
    IF grad_op.get_all THEN SubSeq(dinputs, 1, nin) ELSE <<dinputs[1]>>

\* What gradient_function(*args) returns, gradient_function being
\* grad_op(net) or grad_op(net, params).
GradFunction(grad_op, net, params, args) ==
    LET nin  == IF grad_op.sens_param THEN Len(args) - 1 ELSE Len(args)
        fwd  == NetConstruct(net, args[1], args[2])
        sens == Sensitivity(grad_op, args, fwd)
        g    == NetBprop(net, args[1], args[2], sens)
        din  == InputGradients(grad_op, g.inputs, nin)
        dw   == [p \in 1..Len(params) |-> g[params[p].name]]
    IN  IF grad_op.get_by_list
        THEN IF grad_op.get_all
             THEN [kind |-> "pair", inputs |-> din, weights |-> dw]
             ELSE [kind |-> "tuple", inputs |-> <<>>, weights |-> dw]
        ELSE IF grad_op.get_all
             THEN [kind |-> "tuple", inputs |-> din, weights |-> <<>>]
             ELSE [kind |-> "tensor", inputs |-> din, weights |-> <<>>]

\* "The dimension must be the same as the output dimension."
SensOk(grad_op, net, args) ==
    grad_op.sens_param =>
        args[Len(args)].shape = NetConstruct(net, args[1], args[2]).shape

(***************************************************************************)
(* The three definitions of class GradNetWrtX.                             *)
(***************************************************************************)
NoGradNet ==
    [net |-> NoNet, params |-> <<>>, grad_op |-> GradOperation(FALSE, FALSE, FALSE),
     grad_wrt_output |-> NoTensor]

\* Mutant: the first definition asks for all inputs whatever it is told.
GradNetWrtX_input_GetAll(net, get_all) ==
    [net |-> net, params |-> <<>>, grad_op |-> GradOperation(TRUE, FALSE, FALSE),
     grad_wrt_output |-> NoTensor]

\* cell 3; with get_all the edit the text after cell 4 describes
GradNetWrtX_input(net, get_all) ==
    [net |-> net, params |-> <<>>, grad_op |-> GradOperation(get_all, FALSE, FALSE),
     grad_wrt_output |-> NoTensor]

\* cell 5
GradNetWrtX_weight(net) ==
    [net |-> net, params |-> trainable_params(net),
     grad_op |-> GradOperation(FALSE, TRUE, FALSE), grad_wrt_output |-> NoTensor]

\* cell 7
GradNetWrtX_sens(net, grad_wrt_output) ==
    [net |-> net, params |-> <<>>, grad_op |-> GradOperation(FALSE, FALSE, TRUE),
     grad_wrt_output |-> grad_wrt_output]

\* GradNetWrtX.construct(x, y) of whichever definition built g
GradNetConstruct(g, a, b) ==
    GradFunction(g.grad_op, g.net, g.params,
                 IF g.grad_op.sens_param THEN <<a, b, g.grad_wrt_output>> ELSE <<a, b>>)

(***************************************************************************)
(* Inputs: the notebook's tensors and small generated ones.                *)
(***************************************************************************)
XNotebook == Tensor(<<2, 3>>, <<8, 6, 2, 18, 13, 11>>)
YNotebook == Tensor(<<3, 3>>, <<11, 330, 110, 110, 20, 140, 110, 220, 30>>)
\* Mutant: the scaling tensor written as three rows of two.
SensNotebook_ThreeByTwo == Tensor(<<3, 2>>, <<1, 6, 2, 8, 13, 11>>)

SensNotebook == Tensor(<<2, 3>>, <<1, 6, 2, 8, 13, 11>>)

OneHot(m, n, h) == Tensor(<<m, n>>, [q \in 1..(m * n) |-> IF q = h THEN 1 ELSE 0])
Ramp(m, n, s) == Tensor(<<m, n>>, [q \in 1..(m * n) |-> q + s])

Generated(m, n) ==
    {OneHot(m, n, h) : h \in 1..(m * n)} \cup {Ramp(m, n, s) : s \in 0..MaxSeed}

InputPairs ==
    {<<XNotebook, YNotebook>>} \cup
    UNION { Generated(m, n) \X Generated(n, p) : <<m, n, p>> \in (1..MaxDim) \X (1..MaxDim) \X (1..MaxDim) }

SensInputs(shape) == {SensNotebook} \cup Generated(shape[1], shape[2])

(***************************************************************************)
(* mindspore.nn layers of 5_model.ipynb.  A tensor that np.ones fills, or  *)
(* that passes a layer whose weights weight_init draws at random, is       *)
(* modelled by its shape alone (data <<>>): the cells print its shape only.*)
(***************************************************************************)
ShapeOnly(shape) == Tensor(shape, <<>>)

Layer(type, in_channels, out_channels, kernel_size, stride, pad_mode, has_bias) ==
    [type |-> type, in_channels |-> in_channels, out_channels |-> out_channels,
     kernel_size |-> kernel_size, stride |-> stride, pad_mode |-> pad_mode,
     has_bias |-> has_bias]

NoLayer == Layer("unbound", 0, 0, 0, 0, "", FALSE)

\* nn.Conv2d(in_channels, out_channels, kernel_size, pad_mode=..., has_bias=False), stride 1
Conv2d(in_channels, out_channels, kernel_size, pad_mode, has_bias) ==
    Layer("Conv2d", in_channels, out_channels, kernel_size, 1, pad_mode, has_bias)

\* nn.Dense(in_channels, out_channels), has_bias=True
Dense(in_channels, out_channels) ==
    Layer("Dense", in_channels, out_channels, 0, 0, "", TRUE)

\* Mutant: the stride argument is dropped and the stride stays 1.
MaxPool2d_StrideOne(kernel_size, stride) ==
    Layer("MaxPool2d", 0, 0, kernel_size, 1, "valid", FALSE)

\* nn.MaxPool2d(kernel_size, stride), pad_mode "valid"
MaxPool2d(kernel_size, stride) == Layer("MaxPool2d", 0, 0, kernel_size, stride, "valid", FALSE)

ReLU == Layer("ReLU", 0, 0, 0, 0, "", FALSE)

Flatten == Layer("Flatten", 0, 0, 0, 0, "", FALSE)

\* Mutant: the last window position is not counted.
Window_OffByOne(h, layer) ==
    IF layer.pad_mode = "valid"
    THEN (h - layer.kernel_size) \div layer.stride
    ELSE (h + layer.stride - 1) \div layer.stride

\* One spatial dimension of a convolution's or a pooling's output.
Window(h, layer) ==
    IF layer.pad_mode = "valid"
    THEN (h - layer.kernel_size) \div layer.stride + 1
    ELSE (h + layer.stride - 1) \div layer.stride

\* The shape of layer(input) for an input of shape s.
OutShape(layer, s) ==
    CASE layer.type = "Conv2d"    -> <<s[1], layer.out_channels, Window(s[3], layer), Window(s[4], layer)>>
      [] layer.type = "MaxPool2d" -> <<s[1], s[2], Window(s[3], layer), Window(s[4], layer)>>
      [] layer.type = "Flatten"   -> <<s[1], Numel(Tail(s))>>
      [] layer.type = "Dense"     -> [d \in 1..Len(s) |-> IF d = Len(s) THEN layer.out_channels ELSE s[d]]
      [] OTHER                    -> s

Max(a, b) == IF a >= b THEN a ELSE b

\* layer(t)
Apply(layer, t) ==
    IF layer.type = "ReLU"
    THEN Tensor(t.shape, [q \in 1..Len(t.data) |-> Max(t.data[q], 0)])
    ELSE ShapeOnly(OutShape(layer, t.shape))

Param(name, shape) ==
    [name |-> name, shape |-> shape, dtype |-> "Float32", requires_grad |-> TRUE]

\* Mutant: a convolution holds a bias whatever has_bias says.
LayerParams_ConvBias(prefix, layer) ==
    CASE layer.type \in {"Conv2d", "Dense"} ->
           << Param(prefix \o ".weight",
                    IF layer.type = "Conv2d"
                    THEN <<layer.out_channels, layer.in_channels, layer.kernel_size, layer.kernel_size>>
                    ELSE <<layer.out_channels, layer.in_channels>>),
              Param(prefix \o ".bias", <<layer.out_channels>>) >>
      [] OTHER -> <<>>

\* The parameters a layer holds, the weight first.
LayerParams(prefix, layer) ==
    CASE layer.type = "Conv2d" ->
           << Param(prefix \o ".weight",
                    <<layer.out_channels, layer.in_channels, layer.kernel_size, layer.kernel_size>>) >>
           \o (IF layer.has_bias THEN << Param(prefix \o ".bias", <<layer.out_channels>>) >> ELSE <<>>)
      [] layer.type = "Dense" ->
           << Param(prefix \o ".weight", <<layer.out_channels, layer.in_channels>>) >>
           \o (IF layer.has_bias THEN << Param(prefix \o ".bias", <<layer.out_channels>>) >> ELSE <<>>)
      [] OTHER -> <<>>

Child(name, layer) == [name |-> name, cell |-> layer]

\* LeNet5.__init__: the child cells in the order the attributes are assigned
LeNet5Init(num_class, num_channel) ==
    << Child("conv1", Conv2d(num_channel, 6, 5, "valid", FALSE)),
       Child("conv2", Conv2d(6, 16, 5, "valid", FALSE)),
       Child("fc1", Dense(16 * 5 * 5, 120)),
       Child("fc2", Dense(120, 84)),
       Child("fc3", Dense(84, num_class)),
       Child("relu", ReLU),
       Child("max_pool2d", MaxPool2d(2, 2)),
       Child("flatten", Flatten) >>

\* model.parameters_and_names(): every child's parameters, child after child
RECURSIVE parameters_and_names(_)
parameters_and_names(cells) ==
    IF cells = <<>> THEN <<>>
    ELSE LayerParams(Head(cells).name, Head(cells).cell) \o parameters_and_names(Tail(cells))

NumClassDefault == 10
NumChannelDefault == 1

\* The shapes the demonstration cells feed their layer: the notebook's, and
\* small ones the layer accepts.
Sizes(least, given) == {given} \cup least..(least + MaxDim)
Small(given) == {given} \cup 1..MaxDim

Conv2dInputs == {<<n, 1, h, w>> : n \in 1..MaxDim, h \in Sizes(5, 32), w \in Sizes(5, 32)}
MaxPool2dInputs ==
    {<<n, c, h, w>> : n \in 1..MaxDim, c \in Small(6), h \in Sizes(2, 28), w \in Sizes(2, 28)}
FlattenInputs ==
    {<<n, c, h, w>> : n \in 1..MaxDim, c \in Small(16), h \in Small(5), w \in Small(5)}
DenseInputs == {<<n, 400>> : n \in 1..MaxDim}

(***************************************************************************)
(* 4_dataset.ipynb, "Loading and Processing Data": the names of the kernel *)
(* and the statements of a cell.                                           *)
(***************************************************************************)
NoNames == [n \in {} |-> 0]

Bound(names, n) == n \in DOMAIN names

Assign(names, n, v) == [m \in DOMAIN names \cup {n} |-> IF m = n THEN v ELSE names[m]]

\* One statement of a cell: the name it binds, the value, and whether the call
\* it makes returns (ok) or raises.
Statement(name, value, ok) == [name |-> name, value |-> value, ok |-> ok]

\* A cell's statements run in order; nothing in a cell catches an exception, so
\* the first statement that raises ends the cell with the names bound so far.
\* Mutant: the failing statement binds its name before the error surfaces.
RECURSIVE RunStatements_BindThenRaise(_, _)
RunStatements_BindThenRaise(names, stmts) ==
    IF stmts = <<>> THEN [ns |-> names, raised |-> FALSE]
    ELSE IF ~Head(stmts).ok
         THEN [ns |-> Assign(names, Head(stmts).name, Head(stmts).value), raised |-> TRUE]
    ELSE RunStatements_BindThenRaise(Assign(names, Head(stmts).name, Head(stmts).value),
                                     Tail(stmts))

RECURSIVE RunStatements(_, _)
RunStatements(names, stmts) ==
    IF stmts = <<>> THEN [ns |-> names, raised |-> FALSE]
    ELSE IF ~Head(stmts).ok THEN [ns |-> names, raised |-> TRUE]
    ELSE RunStatements(Assign(names, Head(stmts).name, Head(stmts).value), Tail(stmts))

(***************************************************************************)
(* The dataset directories.  A directory is there or not; of its samples   *)
(* the labels are kept, in stored order: every CIFAR-10 image is 32x32x3   *)
(* and every MNIST image 28x28x1, and the pixels are not modelled.         *)
(***************************************************************************)
Directory(exists, labels) == [exists |-> exists, labels |-> labels]

NoDirectory == Directory(FALSE, <<>>)

NoDisk == [cifar |-> NoDirectory, mnist |-> NoDirectory]

\* The labels cell 2 printed for the first five samples of CIFAR-10.
CifarRecorded == <<6, 9, 9, 4, 1>>

CifarImage == ShapeOnly(<<32, 32, 3>>)
MnistImage == ShapeOnly(<<28, 28, 1>>)

Scalar(v) == Tensor(<<>>, <<v>>)

\* The directories DATA_DIR may name: none, the recorded one followed by more
\* samples, and generated ones.
CifarDirectories ==
    {NoDirectory}
    \cup {Directory(TRUE, CifarRecorded \o more) : more \in {<<>>, <<2>>, <<2, 7, 8>>}}
    \cup {Directory(TRUE, [i \in 1..(6 + s) |-> (3 * i + s) % 10]) : s \in 0..MaxSeed}

(***************************************************************************)
(* mindspore.dataset: a dataset is its source, the order in which the      *)
(* sampler or the shuffle visits the source's samples (indices from 0),    *)
(* the batch size (0: not batched) and the operations map added.           *)
(***************************************************************************)
Dataset(source, order, batch_size, operations) ==
    [source |-> source, order |-> order, batch_size |-> batch_size, operations |-> operations]

NoDataset == Dataset("none", <<>>, 0, <<>>)

\* ds.SequentialSampler(num_samples=n): the first n indices, in order
SequentialSampler(num_samples) == [num_samples |-> num_samples]

\* Mutant: the sampler starts at the second sample.
SamplerOrder_FromOne(sampler) == [i \in 1..sampler.num_samples |-> i]

SamplerOrder(sampler) == [i \in 1..sampler.num_samples |-> i - 1]

\* ds.Cifar10Dataset(DATA_DIR, sampler=sampler)
Cifar10Dataset(sampler) == Dataset("cifar", SamplerOrder(sampler), 0, <<>>)

Min(a, b) == IF a <= b THEN a ELSE b

\* The number of rows an iterator over d yields.
NumRows(d) ==
    IF d.batch_size = 0 THEN Len(d.order)
    ELSE (Len(d.order) + d.batch_size - 1) \div d.batch_size

\* The indices of the samples that make row j (from 1) of d.
RowIndices(d, j) ==
    IF d.batch_size = 0 THEN <<d.order[j]>>
    ELSE SubSeq(d.order, (j - 1) * d.batch_size + 1, Min(j * d.batch_size, Len(d.order)))

(***************************************************************************)
(* class DatasetGenerator.  np.random.sample draws the entries; kept are   *)
(* the ones cell 4 printed (in units of 1e-8) and small generated ones.    *)
(* A method is what it returns (value) and the object it leaves (self).    *)
(***************************************************************************)
NumSamples == 5

\* self.data = np.random.sample((5, 2)); self.label = np.random.sample((5, 1))
DatasetGeneratorInit(data, label) == [data |-> data, label |-> label]

NoGenerator == DatasetGeneratorInit(<<>>, <<>>)

\* Mutant: the label of the first sample is returned with every data row.
DatasetGenerator_getitem_FirstLabel(self, index) ==
    [self |-> self, value |-> <<self.data[index + 1], self.label[1]>>]

\* def __getitem__(self, index): return self.data[index], self.label[index]
DatasetGenerator_getitem(self, index) ==
    [self |-> self, value |-> <<self.data[index + 1], self.label[index + 1]>>]

\* def __len__(self): return len(self.data)
DatasetGenerator_len(self) == [self |-> self, value |-> Len(self.data)]

GeneratorRecorded ==
    DatasetGeneratorInit(
        << <<36510558, 45120592>>, <<49606035, 7562207>>, <<57176158, 28963401>>,
           <<30880446, 37487617>>, <<81585667, 96883469>> >>,
        << <<78888122>>, <<38068183>>, <<16271622>>, <<54738768>>, <<77994068>> >>)

GeneratorSamples ==
    {GeneratorRecorded}
    \cup {DatasetGeneratorInit([i \in 1..NumSamples |-> <<7 * i + s, 7 * i + s + 3>>],
                               [i \in 1..NumSamples |-> <<50 + s - i>>]) : s \in 0..MaxSeed}

\* ds.GeneratorDataset(source, column_names, shuffle=False): len(source) rows,
\* source[0], source[1], ... in order
GeneratorDataset(source) ==
    Dataset("generator", [i \in 1..DatasetGenerator_len(source).value |-> i - 1], 0, <<>>)

\* A numpy row as a tensor.
RowTensor(row) == Tensor(<<Len(row)>>, row)

\* Sample idx of the source of a dataset: its two columns, and the generator
\* as the access leaves it.
FetchOne(gen, dsk, source, idx) ==
    CASE source = "generator" ->
           LET r == DatasetGenerator_getitem(gen, idx)
           IN  [gen |-> r.self, sample |-> <<RowTensor(r.value[1]), RowTensor(r.value[2])>>]
      [] source = "cifar" ->
           [gen |-> gen, sample |-> <<CifarImage, Scalar(dsk.cifar.labels[idx + 1])>>]
      [] source = "mnist" ->
           [gen |-> gen, sample |-> <<MnistImage, Scalar(dsk.mnist.labels[idx + 1])>>]

RECURSIVE FetchSamples(_, _, _, _)
FetchSamples(gen, dsk, source, idxs) ==
    IF idxs = <<>> THEN [gen |-> gen, samples |-> <<>>]
    ELSE LET first == FetchOne(gen, dsk, source, Head(idxs))
             rest  == FetchSamples(first.gen, dsk, source, Tail(idxs))
         IN  [gen |-> rest.gen, samples |-> <<first.sample>> \o rest.samples]

\* The operators of mindspore.dataset.vision.c_transforms and
\* mindspore.dataset.transforms.c_transforms the notebooks build.
Resize(size) == [op |-> "Resize", size |-> size]
RandomCrop(size) == [op |-> "RandomCrop", size |-> <<size, size>>]
TypeCast(dtype) == [op |-> "TypeCast", size |-> <<>>]
HWC2CHW == [op |-> "HWC2CHW", size |-> <<>>]

\* An operator applied to an image (height, width, channels).
ApplyOperation(image, operation) ==
    CASE operation.op \in {"Resize", "RandomCrop"} ->
           ShapeOnly(<<operation.size[1], operation.size[2], image.shape[3]>>)
      [] operation.op = "HWC2CHW" ->
           ShapeOnly(<<image.shape[3], image.shape[1], image.shape[2]>>)
      [] OTHER -> image

RECURSIVE ApplyOperations(_, _)
ApplyOperations(image, operations) ==
    IF operations = <<>> THEN image
    ELSE ApplyOperations(ApplyOperation(image, Head(operations)), Tail(operations))

\* dataset.map(operations, input_columns="image"): a dataset whose images
\* pass through the operations when a row is fetched
Map(d, operations) == [d EXCEPT !.operations = @ \o operations]

\* dataset.shuffle(buffer_size) with a buffer that holds the whole dataset:
\* the samples in the order of a permutation of their positions
Shuffle(d, permutation) ==
    [d EXCEPT !.order = [i \in 1..Len(d.order) |-> d.order[permutation[i]]]]

\* dataset.batch(batch_size)
Batch(d, batch_size) == [d EXCEPT !.batch_size = batch_size]

Rotate(n, k) == [i \in 1..n |-> ((i - 1 + k) % n) + 1]

\* The permutation cell 5 printed under ds.config.set_seed(58).
ShuffleRecorded == <<1, 3, 4, 2, 5>>

\* The permutations a shuffle of n samples may choose (a few of them).
ShufflePermutations(n) ==
    {Rotate(n, k) : k \in 0..(MaxSeed + 1)}
    \cup (IF n = Len(ShuffleRecorded) THEN {ShuffleRecorded} ELSE {})

\* Row j of dataset d: the samples of the row, one when d is not batched,
\* their images passed through the operations of d.  Only a generator's
\* samples are read through __getitem__, one after the other.
FetchRow(gen, dsk, d, j) ==
    LET idxs == RowIndices(d, j)
        r == IF d.source = "generator" THEN FetchSamples(gen, dsk, d.source, idxs)
             ELSE [gen |-> gen,
                   samples |-> [k \in 1..Len(idxs) |->
                                  FetchOne(gen, dsk, d.source, idxs[k]).sample]]
    IN  [gen |-> r.gen,
         samples |-> [k \in 1..Len(r.samples) |->
                        <<ApplyOperations(r.samples[k][1], d.operations), r.samples[k][2]>>]]

\* ds.MnistDataset(DATA_DIR, num_samples=n, shuffle=False)
MnistDataset(num_samples) == Dataset("mnist", [i \in 1..num_samples |-> i - 1], 0, <<>>)

MnistDirectories ==
    {NoDirectory}
    \cup {Directory(TRUE, [i \in 1..(6 + s) |-> (7 * i + s) % 10]) : s \in 0..MaxSeed}

\* dataset.create_dict_iterator(): an iterator is the dataset and the number
\* of rows it has yielded; next(iterator) is the row and the iterator after.
Iterator(d) == [dataset |-> d, yielded |-> 0]

IteratorNext(gen, dsk, iterator) ==
    [iterator |-> [iterator EXCEPT !.yielded = @ + 1],
     row |-> FetchRow(gen, dsk, iterator.dataset, iterator.yielded + 1).samples]

\* The generator a kernel holds, if it holds one.
GeneratorOf(names) ==
    IF Bound(names, "dataset_generator") THEN names["dataset_generator"] ELSE NoGenerator

(***************************************************************************)
(* "Optimizing Model Parameters": the loss of cell 2 and the objects the   *)
(* training cell builds.                                                   *)
(***************************************************************************)
Abs(a) == IF a < 0 THEN -a ELSE a

\* nn.L1Loss()(output_data, target_data): the mean absolute difference, in tenths
L1Loss(output_data, target_data) ==
    (10 * SumSeq([i \in 1..Len(output_data.data) |->
                     Abs(output_data.data[i] - target_data.data[i])]))
    \div Len(output_data.data)

\* nn.SGD(params=net.trainable_params(), learning_rate=learning_rate)
SGD(params, learning_rate) == [params |-> params, learning_rate |-> learning_rate]

\* Model(net, loss_fn=loss, optimizer=optim), and the training steps it has run
Model(net, loss_fn, optimizer) ==
    [net |-> net, loss_fn |-> loss_fn, optimizer |-> optimizer, steps |-> 0]

\* model.train(epoch=epochs, train_dataset=dataset) runs every batch of the
\* dataset once per epoch.
TrainSteps(epoch, train_dataset) == epoch * NumRows(train_dataset)

\* One step of model.train: the next batch of the epoch is fetched and the
\* optimizer updates the network once.
TrainStep(m, dsk, train_dataset) ==
    [model |-> [m EXCEPT !.steps = @ + 1],
     batch |-> FetchRow(NoGenerator, dsk, train_dataset,
                        (m.steps % NumRows(train_dataset)) + 1).samples]

\* The directories the training cell's DATA_DIR may name.
TrainDirectories ==
    {NoDirectory}
    \cup {Directory(TRUE, [i \in 1..(128 + s) |-> (3 * i + s) % 10]) : s \in 0..MaxSeed}

(***************************************************************************)
(* The kernels.                                                            *)
(***************************************************************************)
Running(book, cell) == nb = book /\ kernel = "alive" /\ raised = "none" /\ pc = cell

LayerNames == {"conv2d", "relu", "max_pool2d", "flatten", "dense"}

Init ==
    /\ nb \in {"6_autograd", "5_model", "4_dataset", "4_dataset_optimizing"}
    /\ pc = 1
    /\ kernel = "alive"
    /\ raised = "none"
    /\ zRequiresGrad \in (IF nb = "6_autograd" THEN BOOLEAN ELSE {TRUE})
    /\ firstGetAll \in (IF nb = "6_autograd" THEN BOOLEAN ELSE {FALSE})
    /\ classes = {}
    /\ GradNetWrtXDef = "unbound"
    /\ x = NoTensor
    /\ y = NoTensor
    /\ gradnet = NoGradNet
    /\ layers = [n \in LayerNames |-> NoLayer]
    /\ input_x = NoTensor
    /\ model = <<>>
    /\ disk = NoDisk
    /\ ns = NoNames
    /\ stage = "start"
    /\ it = 0
    /\ output = IF nb = "6_autograd" THEN NoResult ELSE NoTensor
    /\ printed = IF nb = "6_autograd" THEN NoResult ELSE <<>>

(***************************************************************************)
(* 6_autograd.ipynb                                                        *)
(***************************************************************************)
\* cell 1: the imports
AG1_Import ==
    /\ Running("6_autograd", 1)
    /\ pc' = 2
    /\ UNCHANGED datasetVars
    /\ UNCHANGED <<nb, kernel, raised, classes, output, printed, autogradVars, modelVars>>

\* cell 2: class Net
AG2_DefNet ==
    /\ Running("6_autograd", 2)
    /\ classes' = classes \cup {"Net"}
    /\ pc' = 3
    /\ UNCHANGED datasetVars
    /\ UNCHANGED <<nb, kernel, raised, output, printed, autogradVars, modelVars>>

\* cell 3: class GradNetWrtX, the input derivative
AG3_DefGradNetWrtX ==
    /\ Running("6_autograd", 3)
    /\ GradNetWrtXDef' = "input"
    /\ pc' = 4
    /\ UNCHANGED datasetVars
    /\ UNCHANGED <<nb, kernel, raised, zRequiresGrad, firstGetAll, classes,
                   x, y, gradnet, output, printed, modelVars>>

\* cell 4: x = ...; y = ...; output = GradNetWrtX(Net())(x, y); print(output)
AG4_InputGradient ==
    /\ Running("6_autograd", 4)
    /\ \E in \in InputPairs :
         LET g == GradNetWrtX_input(NetInit(zRequiresGrad), firstGetAll)
         IN  /\ x' = in[1]
             /\ y' = in[2]
             /\ gradnet' = g
             /\ output' = GradNetConstruct(g, in[1], in[2])
             /\ printed' = output'
    /\ pc' = 5
    /\ UNCHANGED datasetVars
    /\ UNCHANGED <<nb, kernel, raised, zRequiresGrad, firstGetAll, classes,
                   GradNetWrtXDef, modelVars>>

\* cell 5: class GradNetWrtX, the weight derivative
AG5_DefGradNetWrtX ==
    /\ Running("6_autograd", 5)
    /\ GradNetWrtXDef' = "weight"
    /\ pc' = 6
    /\ UNCHANGED datasetVars
    /\ UNCHANGED <<nb, kernel, raised, zRequiresGrad, firstGetAll, classes,
                   x, y, gradnet, output, printed, modelVars>>

\* cell 6: output = GradNetWrtX(Net())(x, y); print(output)
AG6_WeightGradient ==
    /\ Running("6_autograd", 6)
    /\ LET g == GradNetWrtX_weight(NetInit(zRequiresGrad))
       IN  /\ gradnet' = g
           /\ output' = GradNetConstruct(g, x, y)
           /\ printed' = output'
    /\ pc' = 7
    /\ UNCHANGED datasetVars
    /\ UNCHANGED <<nb, kernel, raised, zRequiresGrad, firstGetAll, classes,
                   GradNetWrtXDef, x, y, modelVars>>

\* cell 7: class GradNetWrtX with sens_param; output = GradNetWrtX(Net())(x, y);
\* print(output).  A scaling tensor of another shape than the output raises, and
\* the cell stops at the call: the class and nothing else is bound.
AG7_ScaledGradient ==
    /\ Running("6_autograd", 7)
    /\ GradNetWrtXDef' = "sens"
    /\ \E s \in SensInputs(NetConstruct(NetInit(zRequiresGrad), x, y).shape) :
         LET g == GradNetWrtX_sens(NetInit(zRequiresGrad), s)
         IN  IF SensOk(g.grad_op, g.net, <<x, y, s>>)
             THEN /\ gradnet' = g
                  /\ output' = GradNetConstruct(g, x, y)
                  /\ printed' = output'
                  /\ raised' = "none"
                  /\ pc' = 8
             ELSE /\ raised' = "ValueError"
                  /\ UNCHANGED <<gradnet, output, printed, pc>>
    /\ UNCHANGED datasetVars
    /\ UNCHANGED <<nb, kernel, zRequiresGrad, firstGetAll, classes, x, y, modelVars>>

\* the last cell with code: pid = os.getpid(); !kill -9 $pid
AG8_Kill ==
    /\ Running("6_autograd", 8)
    /\ kernel' = "killed"
    /\ classes' = {}
    /\ GradNetWrtXDef' = "unbound"
    /\ x' = NoTensor
    /\ y' = NoTensor
    /\ gradnet' = NoGradNet
    /\ output' = NoResult
    /\ printed' = NoResult
    /\ UNCHANGED datasetVars
    /\ UNCHANGED <<nb, pc, raised, zRequiresGrad, firstGetAll, modelVars>>

(***************************************************************************)
(* 5_model.ipynb                                                           *)
(***************************************************************************)
\* cell 1: the imports
M1_Import ==
    /\ Running("5_model", 1)
    /\ pc' = 2
    /\ UNCHANGED datasetVars
    /\ UNCHANGED <<nb, kernel, raised, classes, output, printed, autogradVars, modelVars>>

\* cell 2: class LeNet5
M2_DefLeNet5 ==
    /\ Running("5_model", 2)
    /\ classes' = classes \cup {"LeNet5"}
    /\ pc' = 3
    /\ UNCHANGED datasetVars
    /\ UNCHANGED <<nb, kernel, raised, output, printed, autogradVars, modelVars>>

\* cell 3: conv2d = nn.Conv2d(1, 6, 5, has_bias=False, weight_init='normal',
\* pad_mode='valid'); input_x = Tensor(np.ones([1, 1, 32, 32])); print(conv2d(input_x).shape)
M3_Conv2d ==
    /\ Running("5_model", 3)
    /\ \E s \in Conv2dInputs :
         /\ layers' = [layers EXCEPT !["conv2d"] = Conv2d(1, 6, 5, "valid", FALSE)]
         /\ input_x' = ShapeOnly(s)
         /\ printed' = Apply(layers'["conv2d"], input_x').shape
    /\ pc' = 4
    /\ UNCHANGED datasetVars
    /\ UNCHANGED <<nb, kernel, raised, classes, output, model, autogradVars>>

\* cell 4: relu = nn.ReLU(); input_x = Tensor(np.array([-1, 2, -3, 2, -1]));
\* output = relu(input_x); print(output)
M4_ReLU ==
    /\ Running("5_model", 4)
    /\ layers' = [layers EXCEPT !["relu"] = ReLU]
    /\ input_x' = Tensor(<<5>>, <<-1, 2, -3, 2, -1>>)
    /\ output' = Apply(layers'["relu"], input_x')
    /\ printed' = output'.data
    /\ pc' = 5
    /\ UNCHANGED datasetVars
    /\ UNCHANGED <<nb, kernel, raised, classes, model, autogradVars>>

\* cell 5: max_pool2d = nn.MaxPool2d(kernel_size=2, stride=2);
\* input_x = Tensor(np.ones([1, 6, 28, 28])); print(max_pool2d(input_x).shape)
M5_MaxPool2d ==
    /\ Running("5_model", 5)
    /\ \E s \in MaxPool2dInputs :
         /\ layers' = [layers EXCEPT !["max_pool2d"] = MaxPool2d(2, 2)]
         /\ input_x' = ShapeOnly(s)
         /\ printed' = Apply(layers'["max_pool2d"], input_x').shape
    /\ pc' = 6
    /\ UNCHANGED datasetVars
    /\ UNCHANGED <<nb, kernel, raised, classes, output, model, autogradVars>>

\* cell 6: flatten = nn.Flatten(); input_x = Tensor(np.ones([1, 16, 5, 5]));
\* output = flatten(input_x); print(output.shape)
M6_Flatten ==
    /\ Running("5_model", 6)
    /\ \E s \in FlattenInputs :
         /\ layers' = [layers EXCEPT !["flatten"] = Flatten]
         /\ input_x' = ShapeOnly(s)
         /\ output' = Apply(layers'["flatten"], input_x')
         /\ printed' = output'.shape
    /\ pc' = 7
    /\ UNCHANGED datasetVars
    /\ UNCHANGED <<nb, kernel, raised, classes, model, autogradVars>>

\* cell 7: dense = nn.Dense(400, 120, weight_init='normal');
\* input_x = Tensor(np.ones([1, 400])); output = dense(input_x); print(output.shape)
M7_Dense ==
    /\ Running("5_model", 7)
    /\ \E s \in DenseInputs :
         /\ layers' = [layers EXCEPT !["dense"] = Dense(400, 120)]
         /\ input_x' = ShapeOnly(s)
         /\ output' = Apply(layers'["dense"], input_x')
         /\ printed' = output'.shape
    /\ pc' = 8
    /\ UNCHANGED datasetVars
    /\ UNCHANGED <<nb, kernel, raised, classes, model, autogradVars>>

\* cell 8: model = LeNet5(); for m in model.parameters_and_names(): print(m)
M8_Parameters ==
    /\ Running("5_model", 8)
    /\ \E num_class \in Small(NumClassDefault), num_channel \in Small(NumChannelDefault) :
         /\ model' = LeNet5Init(num_class, num_channel)
         /\ printed' = parameters_and_names(model')
    /\ pc' = 9
    /\ UNCHANGED datasetVars
    /\ UNCHANGED <<nb, kernel, raised, classes, output, layers, input_x, autogradVars>>

\* the last cell with code: pid = os.getpid(); !kill -9 $pid
M9_Kill ==
    /\ Running("5_model", 9)
    /\ kernel' = "killed"
    /\ classes' = {}
    /\ layers' = [n \in LayerNames |-> NoLayer]
    /\ input_x' = NoTensor
    /\ model' = <<>>
    /\ output' = NoTensor
    /\ printed' = <<>>
    /\ UNCHANGED datasetVars
    /\ UNCHANGED <<nb, pc, raised, autogradVars>>

(***************************************************************************)
(* 4_dataset.ipynb, "Loading and Processing Data"                          *)
(***************************************************************************)
\* A for loop over dataset.create_dict_iterator() in cell `cell`: the iterator
\* is created, yields the rows of the dataset bound to `name` one by one, the
\* body binds data and prints, and the loop ends when the rows are exhausted.
LoopBegin(cell, name) ==
    /\ Running("4_dataset", cell)
    /\ stage = "start"
    /\ stage' = "loop"
    /\ it' = 0
    /\ printed' = <<>>
    /\ UNCHANGED <<nb, pc, kernel, raised, classes, output, disk, ns, autogradVars, modelVars>>

LoopNext(cell, name) ==
    /\ Running("4_dataset", cell)
    /\ stage = "loop"
    /\ it < NumRows(ns[name])
    /\ LET r == FetchRow(GeneratorOf(ns), disk, ns[name], it + 1)
           held == IF Bound(ns, "dataset_generator")
                   THEN Assign(ns, "dataset_generator", r.gen) ELSE ns
       IN  /\ ns' = Assign(held, "data", r.samples)
           /\ printed' = Append(printed, r.samples)
    /\ it' = it + 1
    /\ UNCHANGED <<nb, pc, kernel, raised, classes, output, disk, stage, autogradVars, modelVars>>

\* Mutant: the cell returns while rows are still to come.
LoopEnd_Early(cell, name) ==
    /\ Running("4_dataset", cell)
    /\ stage = "loop"
    /\ it <= NumRows(ns[name])
    /\ stage' = "start"
    /\ it' = 0
    /\ pc' = cell + 1
    /\ UNCHANGED <<nb, kernel, raised, classes, output, printed, disk, ns, autogradVars, modelVars>>

LoopEnd(cell, name) ==
    /\ Running("4_dataset", cell)
    /\ stage = "loop"
    /\ it = NumRows(ns[name])
    /\ stage' = "start"
    /\ it' = 0
    /\ pc' = cell + 1
    /\ UNCHANGED <<nb, kernel, raised, classes, output, printed, disk, ns, autogradVars, modelVars>>

\* cell 1: import mindspore.dataset as ds; DATA_DIR = ...;
\* sampler = ds.SequentialSampler(num_samples=5);
\* dataset = ds.Cifar10Dataset(DATA_DIR, sampler=sampler)
DS1_LoadCifar ==
    /\ Running("4_dataset", 1)
    /\ \E dir \in CifarDirectories :
         LET sampler == SequentialSampler(5)
             r == RunStatements(ns,
                    << Statement("DATA_DIR", "./datasets/cifar-10-batches-bin/train", TRUE),
                       Statement("sampler", sampler, TRUE),
                       Statement("dataset", Cifar10Dataset(sampler), dir.exists) >>)
         IN  /\ disk' = [disk EXCEPT !.cifar = dir]
             /\ ns' = r.ns
             /\ raised' = IF r.raised THEN "RuntimeError" ELSE "none"
             /\ pc' = IF r.raised THEN pc ELSE 2
    /\ UNCHANGED <<nb, kernel, classes, output, printed, stage, it, autogradVars, modelVars>>

\* cell 2: for data in dataset.create_dict_iterator(): print(shape, label)
DS2_Begin == LoopBegin(2, "dataset")
DS2_Next == LoopNext(2, "dataset")
DS2_End == LoopEnd(2, "dataset")

\* cell 3: import numpy as np; np.random.seed(58); class DatasetGenerator
DS3_DefDatasetGenerator ==
    /\ Running("4_dataset", 3)
    /\ classes' = classes \cup {"DatasetGenerator"}
    /\ pc' = 4
    /\ UNCHANGED <<nb, kernel, raised, output, printed, datasetVars, autogradVars, modelVars>>

\* cell 4: dataset_generator = DatasetGenerator();
\* dataset = ds.GeneratorDataset(dataset_generator, ["data", "label"], shuffle=False);
\* for data in dataset.create_dict_iterator(): print(data["data"], data["label"])
DS4_Begin ==
    /\ Running("4_dataset", 4)
    /\ stage = "start"
    /\ \E g \in GeneratorSamples :
         ns' = RunStatements(ns,
                 << Statement("dataset_generator", g, TRUE),
                    Statement("dataset", GeneratorDataset(g), TRUE) >>).ns
    /\ stage' = "loop"
    /\ it' = 0
    /\ printed' = <<>>
    /\ UNCHANGED <<nb, pc, kernel, raised, classes, output, disk, autogradVars, modelVars>>

DS4_Next == LoopNext(4, "dataset")
DS4_End == LoopEnd(4, "dataset")

\* cell 5: ds.config.set_seed(58); dataset = dataset.shuffle(buffer_size=10);
\* dataset = dataset.batch(batch_size=2);
\* for data in dataset.create_dict_iterator(): print(data["data"], data["label"])
DS5_Begin ==
    /\ Running("4_dataset", 5)
    /\ stage = "start"
    /\ \E permutation \in ShufflePermutations(Len(ns["dataset"].order)) :
         LET shuffled == Shuffle(ns["dataset"], permutation)
         IN  ns' = RunStatements(ns,
                     << Statement("dataset", shuffled, TRUE),
                        Statement("dataset", Batch(shuffled, 2), TRUE) >>).ns
    /\ stage' = "loop"
    /\ it' = 0
    /\ printed' = <<>>
    /\ UNCHANGED <<nb, pc, kernel, raised, classes, output, disk, autogradVars, modelVars>>

DS5_Next == LoopNext(5, "dataset")
DS5_End == LoopEnd(5, "dataset")

\* cell 6: DATA_DIR = './datasets/MNIST_Data/train';
\* mnist_dataset = ds.MnistDataset(DATA_DIR, num_samples=6, shuffle=False);
\* mnist_it = mnist_dataset.create_dict_iterator(); data = next(mnist_it); plot
DS6_LoadMnist ==
    /\ Running("4_dataset", 6)
    /\ \E dir \in MnistDirectories :
         LET dsk == [disk EXCEPT !.mnist = dir]
             mnist_dataset == MnistDataset(6)
             n == IF dir.exists
                  THEN IteratorNext(GeneratorOf(ns), dsk, Iterator(mnist_dataset))
                  ELSE [iterator |-> Iterator(mnist_dataset), row |-> <<>>]
             r == RunStatements(ns,
                    << Statement("DATA_DIR", "./datasets/MNIST_Data/train", TRUE),
                       Statement("mnist_dataset", mnist_dataset, dir.exists),
                       Statement("mnist_it", n.iterator, TRUE),
                       Statement("data", n.row, TRUE) >>)
         IN  /\ disk' = dsk
             /\ ns' = r.ns
             /\ raised' = IF r.raised THEN "RuntimeError" ELSE "none"
             /\ pc' = IF r.raised THEN pc ELSE 7
             /\ printed' = IF r.raised THEN <<>> ELSE <<n.row>>
    /\ UNCHANGED <<nb, kernel, classes, output, stage, it, autogradVars, modelVars>>

\* cell 7: resize_op = c_vision.Resize(size=(200,200), ...);
\* crop_op = c_vision.RandomCrop(150); transforms_list = [resize_op, crop_op];
\* mnist_dataset = mnist_dataset.map(operations=transforms_list, input_columns=["image"])
DS7_Map ==
    /\ Running("4_dataset", 7)
    /\ LET resize_op == Resize(<<200, 200>>)
           crop_op == RandomCrop(150)
           transforms_list == <<resize_op, crop_op>>
       IN  ns' = RunStatements(ns,
                   << Statement("resize_op", resize_op, TRUE),
                      Statement("crop_op", crop_op, TRUE),
                      Statement("transforms_list", transforms_list, TRUE),
                      Statement("mnist_dataset",
                                Map(ns["mnist_dataset"], transforms_list), TRUE) >>).ns
    /\ pc' = 8
    /\ printed' = <<>>
    /\ UNCHANGED <<nb, kernel, raised, classes, output, disk, stage, it, autogradVars, modelVars>>

\* cell 8: mnist_dataset = mnist_dataset.create_dict_iterator();
\* data = next(mnist_dataset); plot
DS8_View ==
    /\ Running("4_dataset", 8)
    /\ LET n == IteratorNext(GeneratorOf(ns), disk, Iterator(ns["mnist_dataset"]))
       IN  /\ ns' = RunStatements(ns,
                      << Statement("mnist_dataset", n.iterator, TRUE),
                         Statement("data", n.row, TRUE) >>).ns
           /\ printed' = <<n.row>>
    /\ pc' = 9
    /\ UNCHANGED <<nb, kernel, raised, classes, output, disk, stage, it, autogradVars, modelVars>>

\* the last cell with code: pid = os.getpid(); !kill -9 $pid
DS_Kill ==
    /\ Running("4_dataset", 9)
    /\ kernel' = "killed"
    /\ classes' = {}
    /\ ns' = NoNames
    /\ printed' = <<>>
    /\ UNCHANGED <<nb, pc, raised, output, disk, stage, it, autogradVars, modelVars>>

(***************************************************************************)
(* 4_dataset.ipynb, "Optimizing Model Parameters"                          *)
(***************************************************************************)
\* cell 1: epochs = 5; batch_size = 64; learning_rate = 1e-3 (in thousandths)
OP1_Hyperparameters ==
    /\ Running("4_dataset_optimizing", 1)
    /\ ns' = RunStatements(ns,
                << Statement("epochs", 5, TRUE),
                   Statement("batch_size", 64, TRUE),
                   Statement("learning_rate", 1, TRUE) >>).ns
    /\ pc' = 2
    /\ UNCHANGED <<nb, kernel, raised, classes, output, printed, disk, stage, it,
                   autogradVars, modelVars>>

\* cell 2: loss = nn.L1Loss(); output_data = ...; target_data = ...;
\* print(loss(output_data, target_data))
OP2_L1Loss ==
    /\ Running("4_dataset_optimizing", 2)
    /\ LET output_data == Tensor(<<2, 3>>, <<1, 2, 3, 2, 3, 4>>)
           target_data == Tensor(<<2, 3>>, <<0, 2, 5, 3, 1, 1>>)
       IN  /\ ns' = RunStatements(ns,
                      << Statement("loss", "L1Loss", TRUE),
                         Statement("output_data", output_data, TRUE),
                         Statement("target_data", target_data, TRUE) >>).ns
           /\ printed' = <<L1Loss(output_data, target_data)>>
    /\ pc' = 3
    /\ UNCHANGED <<nb, kernel, raised, classes, output, disk, stage, it,
                   autogradVars, modelVars>>

\* cell 3 up to model = Model(...): DATA_DIR, class Net, net, the
\* hyperparameters, sampler, dataset = ds.Cifar10Dataset(DATA_DIR, sampler=sampler),
\* the type casts, the two maps and the batch, optim, loss, model.  The class
\* statement binds Net before any statement that can fail.
OP3_Build ==
    /\ Running("4_dataset_optimizing", 3)
    /\ stage = "start"
    /\ \E dir \in TrainDirectories :
         LET net == LeNet5Init(10, 3)
             sampler == SequentialSampler(128)
             type_cast_op_image == TypeCast("float32")
             type_cast_op_label == TypeCast("int32")
             loaded == Cifar10Dataset(sampler)
             mapped == Map(loaded, <<type_cast_op_image, HWC2CHW>>)
             optim == SGD(trainable_params([parameters |-> parameters_and_names(net)]), 1)
             loss == "SoftmaxCrossEntropyWithLogits"
             r == RunStatements(ns,
                    << Statement("DATA_DIR", "./datasets/cifar-10-batches-bin/train", TRUE),
                       Statement("net", net, TRUE),
                       Statement("epochs", 5, TRUE),
                       Statement("batch_size", 64, TRUE),
                       Statement("learning_rate", 1, TRUE),
                       Statement("sampler", sampler, TRUE),
                       Statement("dataset", loaded, dir.exists),
                       Statement("type_cast_op_image", type_cast_op_image, TRUE),
                       Statement("type_cast_op_label", type_cast_op_label, TRUE),
                       Statement("HWC2CHW", HWC2CHW, TRUE),
                       Statement("dataset", mapped, TRUE),
                       Statement("dataset", mapped, TRUE),
                       Statement("dataset", Batch(mapped, 64), TRUE),
                       Statement("optim", optim, TRUE),
                       Statement("loss", loss, TRUE),
                       Statement("model", Model(net, loss, optim), TRUE) >>)
         IN  /\ disk' = [disk EXCEPT !.cifar = dir]
             /\ ns' = r.ns
             /\ raised' = IF r.raised THEN "RuntimeError" ELSE "none"
             /\ stage' = IF r.raised THEN stage ELSE "train"
    /\ classes' = classes \cup {"Net"}
    /\ it' = 0
    /\ printed' = <<>>
    /\ UNCHANGED <<nb, pc, kernel, output, autogradVars, modelVars>>

\* cell 3, model.train(epoch=epochs, train_dataset=dataset): one step
OP3_TrainStep ==
    /\ Running("4_dataset_optimizing", 3)
    /\ stage = "train"
    /\ it < TrainSteps(ns["epochs"], ns["dataset"])
    /\ ns' = Assign(ns, "model", TrainStep(ns["model"], disk, ns["dataset"]).model)
    /\ it' = it + 1
    /\ UNCHANGED <<nb, pc, kernel, raised, classes, output, printed, disk, stage,
                   autogradVars, modelVars>>

\* cell 3, model.train returns after the last step of the last epoch
OP3_TrainEnd ==
    /\ Running("4_dataset_optimizing", 3)
    /\ stage = "train"
    /\ it = TrainSteps(ns["epochs"], ns["dataset"])
    /\ stage' = "start"
    /\ it' = 0
    /\ pc' = 4
    /\ UNCHANGED <<nb, kernel, raised, classes, output, printed, disk, ns,
                   autogradVars, modelVars>>

\* the last cell with code: pid = os.getpid(); !kill -9 $pid
OP_Kill ==
    /\ Running("4_dataset_optimizing", 4)
    /\ kernel' = "killed"
    /\ classes' = {}
    /\ ns' = NoNames
    /\ printed' = <<>>
    /\ UNCHANGED <<nb, pc, raised, output, disk, stage, it, autogradVars, modelVars>>

Next ==
    \/ AG1_Import
    \/ AG2_DefNet
    \/ AG3_DefGradNetWrtX
    \/ AG4_InputGradient
    \/ AG5_DefGradNetWrtX
    \/ AG6_WeightGradient
    \/ AG7_ScaledGradient
    \/ AG8_Kill
    \/ M1_Import
    \/ M2_DefLeNet5
    \/ M3_Conv2d
    \/ M4_ReLU
    \/ M5_MaxPool2d
    \/ M6_Flatten
    \/ M7_Dense
    \/ M8_Parameters
    \/ M9_Kill
    \/ DS1_LoadCifar
    \/ DS2_Begin
    \/ DS2_Next
    \/ DS2_End
    \/ DS3_DefDatasetGenerator
    \/ DS4_Begin
    \/ DS4_Next
    \/ DS4_End
    \/ DS5_Begin
    \/ DS5_Next
    \/ DS5_End
    \/ DS6_LoadMnist
    \/ DS7_Map
    \/ DS8_View
    \/ DS_Kill
    \/ OP1_Hyperparameters
    \/ OP2_L1Loss
    \/ OP3_Build
    \/ OP3_TrainStep
    \/ OP3_TrainEnd
    \/ OP_Kill

Spec == Init /\ [][Next]_vars

(***************************************************************************)
(* The derivative by definition.  Net is linear in each of x, y and z, so  *)
(* the slope of the weighted output sum along one entry is exactly the     *)
(* difference made by adding 1 to that entry.                              *)
(***************************************************************************)
WeightedSum(net, a, b, sens) ==
    LET out == NetConstruct(net, a, b)
    IN  SumSeq([q \in 1..Len(out.data) |-> sens.data[q] * out.data[q]])

Nudge(t, h) == Tensor(t.shape, [q \in 1..Len(t.data) |-> IF q = h THEN t.data[q] + 1 ELSE t.data[q]])

SlopeWrtX(net, a, b, sens) ==
    Tensor(a.shape, [h \in 1..Len(a.data) |->
        WeightedSum(net, Nudge(a, h), b, sens) - WeightedSum(net, a, b, sens)])

SlopeWrtY(net, a, b, sens) ==
    Tensor(b.shape, [h \in 1..Len(b.data) |->
        WeightedSum(net, a, Nudge(b, h), sens) - WeightedSum(net, a, b, sens)])

AfterCell(book, cell) == nb = book /\ kernel = "alive" /\ raised = "none" /\ pc = cell + 1

NotebookInputs == x = XNotebook /\ y = YNotebook

\* C1: with GradOperation() at its defaults, GradNetWrtX(Net())(x, y) of cell 4
\* is one tensor, the derivative with respect to x, of the shape of x ((2,3) for
\* the notebook's x); it holds no derivative for y and none for the weight z.
C1_FirstInputOnly ==
    (AfterCell("6_autograd", 4) /\ ~firstGetAll) =>
        /\ output.kind = "tensor"
        /\ Len(output.inputs) = 1
        /\ output.weights = <<>>
        /\ output.inputs[1].shape = x.shape
        /\ output.inputs[1] = SlopeWrtX(gradnet.net, x, y, OnesLike(NetConstruct(gradnet.net, x, y)))
        /\ (NotebookInputs => output.inputs[1].shape = <<2, 3>>)

\* cell 4's printed output: [[4.51 2.7 3.6] [4.51 2.7 3.6]], in hundredths
C1_Witness ==
    /\ AfterCell("6_autograd", 4) /\ ~firstGetAll /\ NotebookInputs
    /\ printed = [kind |-> "tensor", weights |-> <<>>,
                  inputs |-> << Tensor(<<2, 3>>, <<451, 270, 360, 451, 270, 360>>) >>]

\* C2: with sens_param=True, entry (i,k) of GradNetWrtX(Net())(x, y) of cell 7 is
\* z times the sum over j of grad_wrt_output[i][j] * y[k][j]; for the notebook's
\* tensors that is [[2.211 0.51 1.49] [5.588 2.68 4.07]].
C2_SensScalesGradient ==
    AfterCell("6_autograd", 7) =>
        LET s == gradnet.grad_wrt_output
            z == NetZ(gradnet.net).data[1]
        IN  /\ output.kind = "tensor"
            /\ output.inputs[1].shape = x.shape
            /\ \A i \in 1..Rows(x), k \in 1..Cols(x) :
                 At(output.inputs[1], i, k) =
                   z * SumSeq([j \in 1..Cols(y) |-> At(s, i, j) * At(y, k, j)])
            /\ (NotebookInputs /\ s = SensNotebook =>
                  output.inputs[1].data = <<2211, 510, 1490, 5588, 2680, 4070>>)

C2_Witness ==
    /\ AfterCell("6_autograd", 7) /\ NotebookInputs
    /\ gradnet.grad_wrt_output = SensNotebook
    /\ printed.inputs = << Tensor(<<2, 3>>, <<2211, 510, 1490, 5588, 2680, 4070>>) >>

\* C3: with get_by_list=True, GradNetWrtX(Net())(x, y) of cell 6 is a tuple of
\* one gradient per parameter of ParameterTuple(net.trainable_params()), in that
\* order, each of its parameter's shape, and holds no input derivative; for Net
\* it is a 1-tuple of one tensor of shape [1].
C3_OneGradientPerParameter ==
    AfterCell("6_autograd", 6) =>
        /\ output.kind = "tuple"
        /\ output.inputs = <<>>
        /\ gradnet.params = trainable_params(gradnet.net)
        /\ Len(output.weights) = Len(gradnet.params)
        /\ \A p \in 1..Len(gradnet.params) :
             output.weights[p].shape = gradnet.params[p].data.shape
        /\ (zRequiresGrad =>
              /\ Len(output.weights) = 1
              /\ output.weights[1].shape = <<1>>
              /\ gradnet.params[1].name = "z")

C3_Witness ==
    /\ AfterCell("6_autograd", 6) /\ zRequiresGrad /\ NotebookInputs
    /\ printed.kind = "tuple"
    /\ Len(printed.weights) = 1
    /\ printed.weights[1].shape = <<1>>

\* C4: the weight derivative cell 6 returns for z is the sum over i, k, j of
\* x[i][k] * y[k][j]; for the notebook's x and y it is 21.536.
C4_WeightGradientValue ==
    (AfterCell("6_autograd", 6) /\ zRequiresGrad) =>
        /\ output.weights[1].data =
             << SumSeq([i \in 1..Rows(x) |->
                  SumSeq([k \in 1..Cols(x) |->
                    SumSeq([j \in 1..Cols(y) |-> At(x, i, k) * At(y, k, j)])])]) >>
        /\ (NotebookInputs => output.weights[1].data = <<21536>>)

C4_Witness ==
    /\ AfterCell("6_autograd", 6) /\ zRequiresGrad /\ NotebookInputs
    /\ printed.weights = << Tensor(<<1>>, <<21536>>) >>

\* C5: with z declared requires_grad=False, net.trainable_params() does not
\* contain z and cell 6's GradNetWrtX returns no gradient for z.
C5_FrozenWeightHasNoGradient ==
    (AfterCell("6_autograd", 6) /\ ~zRequiresGrad) =>
        /\ \A p \in 1..Len(trainable_params(gradnet.net)) :
             trainable_params(gradnet.net)[p].name # "z"
        /\ gradnet.params = <<>>
        /\ output.weights = <<>>

C5_Witness ==
    /\ AfterCell("6_autograd", 6) /\ ~zRequiresGrad /\ NotebookInputs
    /\ gradnet.net.parameters[1].name = "z"
    /\ ~gradnet.net.parameters[1].requires_grad
    /\ printed = [kind |-> "tuple", inputs |-> <<>>, weights |-> <<>>]

\* C6: with self.grad_op = GradOperation(get_all=True) in the first GradNetWrtX
\* and nothing else changed, cell 4 returns the derivatives of all inputs: one
\* for x of the shape of x and one for y of the shape of y.
C6_GetAllReturnsBothInputs ==
    (AfterCell("6_autograd", 4) /\ firstGetAll) =>
        LET ones == OnesLike(NetConstruct(gradnet.net, x, y))
        IN  /\ output.kind = "tuple"
            /\ output.weights = <<>>
            /\ Len(output.inputs) = 2
            /\ output.inputs[1].shape = x.shape
            /\ output.inputs[2].shape = y.shape
            /\ output.inputs[1] = SlopeWrtX(gradnet.net, x, y, ones)
            /\ output.inputs[2] = SlopeWrtY(gradnet.net, x, y, ones)

\* dy[k][j] = z * sum over i of x[i][k]: 2.6, 1.9 and 1.3 per row, in tenths
C6_Witness ==
    /\ AfterCell("6_autograd", 4) /\ firstGetAll /\ NotebookInputs
    /\ Len(printed.inputs) = 2
    /\ printed.inputs[1].shape = <<2, 3>>
    /\ printed.inputs[2] = Tensor(<<3, 3>>, <<26, 26, 26, 19, 19, 19, 13, 13, 13>>)

\* C7: the scaling tensor passed with sens_param=True has the dimension of the
\* network output: grad_wrt_output of cell 7 has shape (2,3), the shape of
\* matmul(x*z, y) for the notebook's x of shape (2,3) and y of shape (3,3).
C7_SensHasOutputShape ==
    /\ (nb = "6_autograd" /\ kernel = "alive" /\ pc \in {5, 6, 7, 8} /\ NotebookInputs) =>
          /\ x.shape = <<2, 3>>
          /\ y.shape = <<3, 3>>
          /\ SensNotebook.shape = <<2, 3>>
          /\ NetConstruct(NetInit(zRequiresGrad), x, y).shape = SensNotebook.shape
    /\ AfterCell("6_autograd", 7) =>
          gradnet.grad_wrt_output.shape = NetConstruct(gradnet.net, x, y).shape

C7_Witness ==
    /\ AfterCell("6_autograd", 7) /\ NotebookInputs
    /\ gradnet.grad_wrt_output = SensNotebook
    /\ gradnet.grad_op.sens_param
    /\ output.inputs[1].shape = <<2, 3>>


C9_Conv2dValidShape ==
    /\ AfterCell("5_model", 3) =>
          /\ printed = <<input_x.shape[1], 6, input_x.shape[3] - 4, input_x.shape[4] - 4>>
          /\ (input_x.shape = <<1, 1, 32, 32>> => printed = <<1, 6, 28, 28>>)
    /\ AfterCell("5_model", 8) =>
          OutShape(model[1].cell, <<1, model[1].cell.in_channels, 32, 32>>) = <<1, 6, 28, 28>>

C9_Witness ==
    /\ AfterCell("5_model", 3)
    /\ layers["conv2d"].type = "Conv2d"
    /\ input_x.shape = <<1, 1, 32, 32>>
    /\ printed = <<1, 6, 28, 28>>

\* C10: nn.MaxPool2d(kernel_size=2, stride=2) leaves the batch and channel
\* dimensions and halves each spatial dimension: (1,6,28,28) becomes (1,6,14,14).
C10_MaxPool2dHalves ==
    AfterCell("5_model", 5) =>
        /\ printed = <<input_x.shape[1], input_x.shape[2],
                       input_x.shape[3] \div 2, input_x.shape[4] \div 2>>
        /\ (input_x.shape = <<1, 6, 28, 28>> => printed = <<1, 6, 14, 14>>)

C10_Witness ==
    /\ AfterCell("5_model", 5)
    /\ layers["max_pool2d"].type = "MaxPool2d"
    /\ input_x.shape = <<1, 6, 28, 28>>
    /\ printed = <<1, 6, 14, 14>>

\* C11: DatasetGenerator gives random access to a fixed sample set: __len__
\* returns the number of samples (5), __getitem__(i) for 0 <= i < len returns
\* the pair (data[i], label[i]) of the same sample, and neither call changes
\* data or label; so cell 4's iterator yields the samples as stored, in order,
\* and the generator stays as it was built.
C11_RandomAccess ==
    /\ [](nb = "4_dataset" /\ Bound(ns, "dataset_generator") =>
            LET g == ns["dataset_generator"]
            IN  /\ DatasetGenerator_len(g).value = 5
                /\ DatasetGenerator_len(g).self = g
                /\ Len(g.data) = 5 /\ Len(g.label) = 5
                /\ \A i \in 0..(DatasetGenerator_len(g).value - 1) :
                     LET r == DatasetGenerator_getitem(g, i)
                     IN  /\ r.value = <<g.data[i + 1], g.label[i + 1]>>
                         /\ r.self = g
                /\ (pc = 4 /\ stage = "loop" =>
                      /\ Len(printed) = it
                      /\ \A j \in 1..it :
                           printed[j] = << <<RowTensor(g.data[j]), RowTensor(g.label[j])>> >>))
    /\ [][nb = "4_dataset" /\ Bound(ns, "dataset_generator") /\ Bound(ns', "dataset_generator")
            => ns'["dataset_generator"] = ns["dataset_generator"]]_vars

\* cell 4's printed output, all five rows, the generator still the one built
C11_Witness ==
    /\ nb = "4_dataset" /\ pc = 4 /\ stage = "loop" /\ it = 5
    /\ ns["dataset_generator"] = GeneratorRecorded
    /\ printed[1] = << <<Tensor(<<2>>, <<36510558, 45120592>>), Tensor(<<1>>, <<78888122>>)>> >>
    /\ printed[5] = << <<Tensor(<<2>>, <<81585667, 96883469>>), Tensor(<<1>>, <<77994068>>)>> >>

\* C12: Cifar10Dataset with ds.SequentialSampler(num_samples=5) yields the first
\* five samples of the dataset: exactly five rows, in stored order, each an
\* image of shape (32,32,3) with its label, and then the iteration ends.
C12_FirstFiveSamples ==
    /\ (nb = "4_dataset" /\ pc = 2 /\ stage = "loop") =>
          /\ it <= 5
          /\ Len(printed) = it
    /\ (nb = "4_dataset" /\ kernel = "alive" /\ (pc = 3 \/ (pc = 2 /\ stage = "loop"))) =>
          /\ Len(disk.cifar.labels) >= 5
          /\ \A j \in 1..Len(printed) :
               /\ Len(printed[j]) = 1
               /\ printed[j][1][1].shape = <<32, 32, 3>>
               /\ printed[j][1][2] = Scalar(disk.cifar.labels[j])
    /\ (nb = "4_dataset" /\ kernel = "alive" /\ pc = 3) =>
          /\ Len(printed) = 5
          /\ (SubSeq(disk.cifar.labels, 1, 5) = CifarRecorded =>
                [j \in 1..5 |-> printed[j][1][2].data[1]] = <<6, 9, 9, 4, 1>>)

\* cell 2's printed output, from a directory that holds more than five samples
C12_Witness ==
    /\ nb = "4_dataset" /\ kernel = "alive" /\ pc = 3
    /\ Len(disk.cifar.labels) > 5
    /\ [j \in 1..Len(printed) |-> printed[j][1][2].data[1]] = <<6, 9, 9, 4, 1>>
    /\ printed[1][1][1].shape = <<32, 32, 3>>


\* The actions of the cells of "Loading and Processing Data" that are neither
\* the steps of a loop nor its end.
DatasetCellStarts ==
    \/ DS1_LoadCifar
    \/ DS2_Begin
    \/ DS3_DefDatasetGenerator
    \/ DS4_Begin
    \/ DS5_Begin
    \/ DS6_LoadMnist
    \/ DS7_Map
    \/ DS8_View
    \/ DS_Kill

\* The last cell with code of every notebook.
LastCell ==
    CASE nb = "6_autograd" -> 8
      [] nb = "5_model" -> 9
      [] nb = "4_dataset" -> 9
      [] nb = "4_dataset_optimizing" -> 4

\* C13: the notebooks run single-threaded and synchronously.  Cells run one at
\* a time and in order: a step leaves the cell counter or moves it to the next
\* cell, and while a loop or model.train is in progress no cell can start.
\* Each statement completes before the next begins: a loop has printed one
\* row per iteration, it has yielded every row of its dataset when the next
\* cell begins, model.train has run every batch of every epoch when it
\* returns, and the kernel is killed by the last cell only, after all others.
C13_OneCellAtATime ==
    /\ [](/\ (stage # "start" => /\ kernel = "alive" /\ raised = "none"
                                 /\ ~ENABLED DatasetCellStarts
                                 /\ ~ENABLED (OP1_Hyperparameters \/ OP2_L1Loss
                                              \/ OP3_Build \/ OP_Kill))
          /\ (stage = "loop" => /\ nb = "4_dataset" /\ pc \in {2, 4, 5}
                                /\ Len(printed) = it
                                /\ it <= NumRows(ns["dataset"]))
          /\ (stage = "train" => /\ nb = "4_dataset_optimizing" /\ pc = 3
                                 /\ ns["model"].steps = it
                                 /\ it <= 5 * 2)
          /\ (nb = "4_dataset_optimizing" /\ pc = 4 /\ kernel = "alive" =>
                 ns["model"].steps = 5 * 2)
          /\ (kernel = "killed" => pc = LastCell))
    /\ [][/\ pc' \in {pc, pc + 1}
          /\ nb' = nb
          /\ (stage = "loop" /\ pc' = pc + 1 =>
                 /\ stage' = "start"
                 /\ Len(printed) = NumRows(ns["dataset"]))
          /\ (stage = "loop" /\ pc' = pc => it' = it + 1 \/ UNCHANGED vars)
          /\ (stage = "train" /\ pc' = pc + 1 =>
                 ns["model"].steps = ns["epochs"] * NumRows(ns["dataset"]))
          /\ (kernel' = "killed" /\ kernel = "alive" => pc = LastCell /\ stage = "start")]_vars

\* model.train has returned after 5 epochs of 2 batches, and the next cell has
\* not begun
C13_Witness ==
    /\ nb = "4_dataset_optimizing" /\ kernel = "alive" /\ pc = 4 /\ stage = "start"
    /\ ns["model"].steps = 10
    /\ NumRows(ns["dataset"]) = 2

\* The names the statements of a cell bind before its framework call that
\* reads DATA_DIR.
BoundBeforeLoad ==
    CASE nb = "4_dataset" /\ pc = 1 -> {"DATA_DIR", "sampler"}
      [] nb = "4_dataset" /\ pc = 6 -> {"DATA_DIR"}
      [] nb = "4_dataset_optimizing" /\ pc = 3 ->
           {"DATA_DIR", "net", "epochs", "batch_size", "learning_rate", "sampler"}
      [] OTHER -> {}

\* C14: no cell catches, retries or recovers from an error.  An error of a
\* framework call (a missing directory at DATA_DIR) surfaces at the statement
\* that makes the call: the names bound by the statements before it are bound
\* to what they were given, every name bound by an earlier cell and not
\* rebound by this one is as it was, the statement's own name and the names
\* of the later statements are not bound by the cell, the rest of the cell
\* (its loop, its training) does not run, and nothing runs after the error.
C14_ErrorsSurface ==
    /\ [](/\ (raised # "none" =>
                 /\ kernel = "alive" /\ stage = "start"
                 /\ BoundBeforeLoad \subseteq DOMAIN ns
                 /\ \/ BoundBeforeLoad # {}
                    \/ /\ nb = "6_autograd" /\ pc = 7
                       /\ GradNetWrtXDef = "sens" /\ gradnet.grad_op.sens_param = FALSE)
          /\ (raised # "none" /\ nb = "4_dataset" /\ pc = 1 =>
                 /\ ~disk.cifar.exists
                 /\ DOMAIN ns = {"DATA_DIR", "sampler"}
                 /\ ns["DATA_DIR"] = "./datasets/cifar-10-batches-bin/train"
                 /\ ns["sampler"] = SequentialSampler(5))
          /\ (raised # "none" /\ nb = "4_dataset" /\ pc = 6 =>
                 /\ ~disk.mnist.exists
                 /\ ns["DATA_DIR"] = "./datasets/MNIST_Data/train"
                 /\ ~Bound(ns, "mnist_dataset") /\ ~Bound(ns, "mnist_it")
                 /\ ns["dataset"].source = "generator" /\ ns["dataset"].batch_size = 2
                 /\ Len(ns["data"]) = 1)
          /\ (raised # "none" /\ nb = "4_dataset_optimizing" =>
                 /\ pc = 3
                 /\ ~disk.cifar.exists
                 /\ DOMAIN ns = BoundBeforeLoad \cup {"loss", "output_data", "target_data"}
                 /\ ns["net"] = LeNet5Init(10, 3)
                 /\ ns["sampler"] = SequentialSampler(128)
                 /\ ns["epochs"] = 5 /\ ns["batch_size"] = 64 /\ ns["learning_rate"] = 1
                 /\ ns["loss"] = "L1Loss"))
    /\ [][raised = "none" /\ raised' # "none" =>
            /\ pc' = pc /\ stage' = stage /\ kernel' = kernel
            /\ DOMAIN ns' = DOMAIN ns \cup BoundBeforeLoad
            /\ \A n \in DOMAIN ns \ BoundBeforeLoad : ns'[n] = ns[n]
            /\ UNCHANGED <<x, y, gradnet, output, modelVars>>]_vars
    /\ [][raised # "none" => UNCHANGED vars]_vars

\* cell 6 of "Loading and Processing Data" stopped at ds.MnistDataset: DATA_DIR
\* rebound, the names of the earlier cells as cell 5 left them
C14_Witness ==
    /\ nb = "4_dataset" /\ pc = 6 /\ raised = "RuntimeError"
    /\ ns["DATA_DIR"] = "./datasets/MNIST_Data/train"
    /\ ns["sampler"] = SequentialSampler(5)
    /\ ns["dataset_generator"] = GeneratorRecorded
    /\ ns["dataset"].order = <<0, 2, 3, 1, 4>>
    /\ ~Bound(ns, "mnist_dataset")

=============================================================================
